---------------------------- MODULE Spec2Model ----------------------------
(***************************************************************************)
(* meddleware: resolution of a tree of middleware specs into middleware    *)
(* functions (resolve, resolveImpl, middleware, taskery, compare), their    *)
(* deferred registration on mount (meddlewareImpl, onmount) and the         *)
(* per-request execution of the composites (parallel, race, fallback).      *)
(*                                                                         *)
(* JavaScript values are modelled as records:                              *)
(*   a spec      [isObject, name, enabled, priorityIsNumber, priority,      *)
(*                parallel, race, fallback, module]                         *)
(*   a mapping   [has, kids]: has = the attribute is present; kids = the    *)
(*                sequence of [key, value] entries in insertion order       *)
(*   a function  [kind, id, tasks]: kind "leaf" is a middleware produced by *)
(*                a factory, the other kinds are composites; id is the      *)
(*                path of names from the settings entry to the spec         *)
(***************************************************************************)
EXTENDS Integers, Sequences, FiniteSets, TLC

\* ------------------------------------------------------------------ bounds
\* the largest number of entries of a children mapping of a request composite
MaxChildren == 3
\* the largest numeric priority drawn for a spec (the smallest is -1)
MaxPriority == 3
\* the largest number of entries of the settings mapping
MaxSettings == 2
\* the largest number of mount notifications delivered to the returned app
MaxMounts == 2
\* the largest length of a mount path or of a string route
MaxLen == 3
\* the largest number of settings entries when their order is looked at
MaxEntries == 3
\* the largest number of elements of an array route
MaxArray == 2

\* ------------------------------------------------------------ JS values
\* the value passed to a callback: NoError is undefined or null, Err(id) the
\* error raised by the middleware id
NoError == [isError |-> FALSE, by |-> <<>>]
Err(id) == [isError |-> TRUE, by |-> id]
Undefined == [kind |-> "undefined", id |-> <<>>, tasks |-> <<>>]
Absent == [has |-> FALSE, kids |-> <<>>]
Mapping(kids) == [has |-> TRUE, kids |-> kids]
Entry(k, v) == [key |-> k, value |-> v]

\* a module reference: type is typeof config ("missing" is a falsy config);
\* factory = config.factory is a function; name = config.name ("" is unset);
\* method = config.method ("" is unset); returns = what the factory call
\* yields: "middleware", "undefined" (a falsy value) or "throws"
ModuleRef(type, factory, name, method, returns) ==
    [type |-> type, factory |-> factory, name |-> name,
     method |-> method, returns |-> returns]
NoModule == ModuleRef("missing", FALSE, "", "", "middleware")
Factory(returns) == ModuleRef("object", TRUE, "", "", returns)

\* a spec object; enabled is "absent", "true" or "false"
SpecObject(name, enabled, hasPrio, prio, par, rac, fal, mod) ==
    [isObject |-> TRUE, name |-> name, enabled |-> enabled,
     priorityIsNumber |-> hasPrio, priority |-> prio,
     parallel |-> par, race |-> rac, fallback |-> fal, module |-> mod]
\* a mapping value that is not an object (a string, a number, a boolean)
NonObject ==
    [isObject |-> FALSE, name |-> "", enabled |-> "absent",
     priorityIsNumber |-> FALSE, priority |-> 0,
     parallel |-> Absent, race |-> Absent, fallback |-> Absent,
     module |-> NoModule]

\* ------------------------------------------------------ loadable units
\* what require() yields for a module name: callable = the unit is a
\* function; members = its callable own members; default = "none",
\* "function" or "object"; defaultMembers = callable members of an object
\* default. A name outside the domain cannot be located.
Units ==
    [plain |-> [callable |-> TRUE, members |-> {}, default |-> "none",
                defaultMembers |-> {}],
     named |-> [callable |-> FALSE, members |-> {"create"}, default |-> "none",
                defaultMembers |-> {}],
     esfn |-> [callable |-> FALSE, members |-> {}, default |-> "function",
               defaultMembers |-> {}],
     esobj |-> [callable |-> FALSE, members |-> {}, default |-> "object",
                defaultMembers |-> {"create"}],
     both |-> [callable |-> TRUE, members |-> {"create"}, default |-> "none",
               defaultMembers |-> {}],
     empty |-> [callable |-> FALSE, members |-> {}, default |-> "none",
                defaultMembers |-> {}]]

\* findModuleMethod: the callable chosen in the loaded unit, "none" when the
\* function returns a value that is not a function
findModuleMethod(config, module) ==
    IF config.method # ""
    THEN IF config.method \in module.members
         THEN "member"
         ELSE IF module.default = "object"
              THEN IF config.method \in module.defaultMembers
                   THEN "default.member" ELSE "none"
              ELSE "none"
    ELSE IF module.callable
         THEN "unit"
         ELSE IF module.default = "function"
              THEN "default" ELSE "none"

\* findModule: [ok, unit]; ok is FALSE when the name is not defined or the
\* unit cannot be located (the function throws)
findModule(config) ==
    IF config.name = "" \/ config.name \notin DOMAIN Units
    THEN [ok |-> FALSE, unit |-> Units.empty]
    ELSE [ok |-> TRUE, unit |-> Units[config.name]]

\* resolveImpl: "middleware", "undefined" or "throws"
resolveImpl(config) ==
    LET cfg == IF config.type = "string"
               THEN ModuleRef("object", FALSE, config.name, "", config.returns)
               ELSE config
    IN  IF cfg.type = "function" THEN cfg.returns
        ELSE IF cfg.type = "missing" THEN "throws"
        ELSE IF cfg.factory THEN cfg.returns
        ELSE LET m == findModule(cfg)
             IN  IF ~m.ok THEN "throws"
                 ELSE IF findModuleMethod(cfg, m.unit) = "none" THEN "throws"
                 ELSE cfg.returns

\* ------------------------------------------------------ Priority Sorter
\* Number.MIN_VALUE is 5e-324, the smallest positive number. Priorities are
\* integers here; the comparator works in half units so that MIN_VALUE lies
\* strictly between 0 and 1, as 5e-324 does.
Num(p) == 2 * p

\* faulty variant: a missing priority counts as lower than every priority drawn
MostNegative == Num(-1) - 1

MIN_VALUE == 1

\* faulty variant: the comparator sorts descending
compareDescending(a, b) ==
    LET ap == IF a.priorityIsNumber THEN Num(a.priority) ELSE MIN_VALUE
        bp == IF b.priorityIsNumber THEN Num(b.priority) ELSE MIN_VALUE
    IN  bp - ap

compare(a, b) ==
    LET ap == IF a.priorityIsNumber THEN Num(a.priority) ELSE MIN_VALUE
        bp == IF b.priorityIsNumber THEN Num(b.priority) ELSE MIN_VALUE
    IN  ap - bp

\* Array.prototype.sort(compare): stable, ascending. Insert puts x, which
\* preceded every element of the sorted s in the array, before the first
\* element that does not compare lower than it.
RECURSIVE Insert(_, _)
Insert(x, s) ==
    IF s = <<>> THEN <<x>>
    ELSE IF compare(x, Head(s)) <= 0
         THEN <<x>> \o s
         ELSE <<Head(s)>> \o Insert(x, Tail(s))

RECURSIVE sort(_)
sort(s) ==
    IF s = <<>> THEN <<>>
    ELSE Insert(Head(s), sort(Tail(s)))

\* ------------------------------------------------------- Spec Resolver
\* util.nameObject: annotates a mapping value with its key as name
nameObject(v, key) ==
    IF v.isObject THEN [v EXCEPT !.name = key] ELSE v

\* util.mapValues(obj, util.nameObject): the values in insertion order
mapValues(m) ==
    [i \in 1..Len(m.kids) |-> nameObject(m.kids[i].value, m.kids[i].key)]

\* faulty variant: the callback hands the error over as the success value
taskerySwapped(err) == [success |-> err, failure |-> NoError]

\* the requestor made by taskery: the arguments its callback passes to
\* requestion when the task calls back with err
taskery(err) == [success |-> NoError, failure |-> err]

\* faulty variant: complete forwards the success value to next
completeSuccess(success, failure) == success

\* complete, the requestion that composite hands to rq: the argument it
\* passes to next
complete(success, failure) == failure

IsTruthy(fn) == fn.kind # "undefined"

\* faulty variant: middleware ignores the requestory it is given
middlewareParallel(requestory, fns, id) ==
    [kind |-> "parallel", id |-> id, tasks |-> SelectSeq(fns, IsTruthy)]

\* faulty variant: middleware keeps the fns that are not truthy
middlewareUnfiltered(requestory, fns, id) ==
    [kind |-> requestory, id |-> id, tasks |-> fns]

\* middleware(requestory, fns): the composite over the truthy fns
middleware(requestory, fns, id) ==
    [kind |-> requestory, id |-> id, tasks |-> SelectSeq(fns, IsTruthy)]

\* the outcome of a resolution: status "value" (the promise is fulfilled
\* with fn) or "throw" (it is rejected); loaded lists the ids of the specs
\* whose module reference was handed to resolveImpl, in call order
Value(f, loaded) == [status |-> "value", fn |-> f, loaded |-> loaded]
Throw(loaded) == [status |-> "throw", fn |-> Undefined, loaded |-> loaded]

\* Promise.all over the results of the child resolutions
AllSettledOk(rs) == \A i \in 1..Len(rs) : rs[i].status = "value"
Fns(rs) == [i \in 1..Len(rs) |-> rs[i].fn]

RECURSIVE Loaded(_)
Loaded(rs) ==
    IF rs = <<>> THEN <<>> ELSE Head(rs).loaded \o Loaded(Tail(rs))

\* faulty variant: a spec without the enabled attribute is pruned too
DisabledWhenAbsent(spec) == spec.enabled # "true"

\* the spec is pruned: enabled is present and falsy
Disabled(spec) == spec.enabled = "false"

RECURSIVE resolve(_, _, _)

\* faulty variant: race is looked at before parallel
resolveRaceFirst(spec, name, path) ==
    IF ~spec.isObject THEN Throw(<<>>)
    ELSE IF Disabled(spec) THEN Value(Undefined, <<>>)
    ELSE
      LET id == path \o <<IF spec.name # "" THEN spec.name ELSE name>>
          each(m) == [i \in 1..Len(m.kids) |->
                        resolve(m.kids[i].value, m.kids[i].key, id)]
          sorted == sort(SelectSeq(mapValues(spec.fallback),
                                   LAMBDA v : v.isObject))
          eachSorted == [i \in 1..Len(sorted) |->
                           resolve(sorted[i], sorted[i].name, id)]
          combine(requestory, rs) ==
              IF AllSettledOk(rs)
              THEN Value(middleware(requestory, Fns(rs), id), Loaded(rs))
              ELSE Throw(Loaded(rs))
      IN  IF spec.race.has THEN combine("race", each(spec.race))
          ELSE IF spec.parallel.has THEN combine("parallel", each(spec.parallel))
          ELSE IF spec.fallback.has THEN combine("fallback", eachSorted)
          ELSE LET r == resolveImpl(spec.module)
               IN  IF r = "throws" THEN Throw(<<id>>)
                   ELSE IF r = "undefined" THEN Value(Undefined, <<id>>)
                   ELSE Value([kind |-> "leaf", id |-> id, tasks |-> <<>>],
                              <<id>>)

\* resolve(spec, name): path is the id of the enclosing composite
resolve(spec, name, path) ==
    IF ~spec.isObject THEN Throw(<<>>)
    ELSE IF Disabled(spec) THEN Value(Undefined, <<>>)
    ELSE
      LET id == path \o <<IF spec.name # "" THEN spec.name ELSE name>>
          each(m) == [i \in 1..Len(m.kids) |->
                        resolve(m.kids[i].value, m.kids[i].key, id)]
          sorted == sort(SelectSeq(mapValues(spec.fallback),
                                   LAMBDA v : v.isObject))
          eachSorted == [i \in 1..Len(sorted) |->
                           resolve(sorted[i], sorted[i].name, id)]
          combine(requestory, rs) ==
              IF AllSettledOk(rs)
              THEN Value(middleware(requestory, Fns(rs), id), Loaded(rs))
              ELSE Throw(Loaded(rs))
      IN  IF spec.parallel.has THEN combine("parallel", each(spec.parallel))
          ELSE IF spec.race.has THEN combine("race", each(spec.race))
          ELSE IF spec.fallback.has THEN combine("fallback", eachSorted)
          ELSE LET r == resolveImpl(spec.module)
               IN  IF r = "throws" THEN Throw(<<id>>)
                   ELSE IF r = "undefined" THEN Value(Undefined, <<id>>)
                   ELSE Value([kind |-> "leaf", id |-> id, tasks |-> <<>>],
                              <<id>>)

\* ---------------------------------------------------- Combinator Engine
VARIABLES
    fn,         \* the composite middleware registered for the request
    st,         \* per function: "idle", "pending", "running", "done", "threw"
    count,      \* per parallel composite: requestors yet to signal
    failure,    \* per parallel composite: the first failure signalled
    index,      \* per fallback composite: the requestor being tried
    started,    \* ids in the order the functions were invoked
    completed,  \* [id, err] in the order the callbacks were called
    nextCalls   \* the arguments of the calls of the host's next

VARIABLES
    settings,   \* the settings mapping given to meddleware
    toCreate,   \* the named, filtered and sorted specs
    cursor,     \* the position of the loop over toCreate
    toRegister, \* the registration entries [fn, spec]
    phase,      \* "init", "awaiting", "returned" or "thrown"
    listening,  \* onmount is registered for the app's next mount
    mounts,     \* mount notifications delivered to the app
    host,       \* what the parent observed: emit and use calls, in order
    stack,      \* the parent's router stack
    loaded      \* ids whose module reference was handed to resolveImpl

VARIABLES
    mountpath,  \* app.mountpath, a string
    route,      \* spec.route of the entry being registered
    effective   \* the route onmount passes to parent.use

routevars == <<mountpath, route, effective>>

rqvars == <<fn, st, count, failure, index, started, completed, nextCalls>>

RECURSIVE Nodes(_)
Nodes(f) ==
    {f} \cup UNION {Nodes(f.tasks[i]) : i \in 1..Len(f.tasks)}

Ids(f) == {n.id : n \in Nodes(f)}
NodeOf(id) == CHOOSE n \in Nodes(fn) : n.id = id
ParentOf(id) == SubSeq(id, 1, Len(id) - 1)
TaskIds(id) == [i \in 1..Len(NodeOf(id).tasks) |-> NodeOf(id).tasks[i].id]

\* the request's state as one record, for the operators below
Run ==
    [st |-> st, count |-> count, failure |-> failure, index |-> index,
     started |-> started, completed |-> completed, nextCalls |-> nextCalls]

Becomes(R) ==
    /\ st' = R.st
    /\ count' = R.count
    /\ failure' = R.failure
    /\ index' = R.index
    /\ started' = R.started
    /\ completed' = R.completed
    /\ nextCalls' = R.nextCalls

\* Callback(R, n, e): the function n calls the callback it was given with e.
\* The callback of the registered composite is the host's next; the callback
\* of a task is the one taskery made, which calls the requestion of its
\* composite. Signal(R, p, arg): the requestion of the composite p is called
\* with arg = [success, failure].
RECURSIVE Callback(_, _, _)
RECURSIVE Signal(_, _, _)
Callback(R, n, e) ==
    LET R1 == [R EXCEPT !.st[n] = "done",
                        !.completed = Append(@, [id |-> n, err |-> e])]
    IN  IF n = fn.id
        THEN [R1 EXCEPT !.nextCalls = Append(@, e)]
        ELSE Signal(R1, ParentOf(n), taskery(e))

\* RQ.parallel: waits for every requestor, keeps the first failure
RQparallel(R, p, arg) ==
    LET R1 == [R EXCEPT !.count[p] = @ - 1,
                        !.failure[p] = IF @ = NoError THEN arg.failure ELSE @]
    IN  IF R1.count[p] = 0
        THEN Callback(R1, p, complete(NoError, R1.failure[p]))
        ELSE R1

\* RQ.race: the first requestor to signal decides, the others are discarded
RQrace(R, p, arg) ==
    IF R.st[p] = "done" THEN R
    ELSE Callback(R, p, complete(arg.success, arg.failure))

\* RQ.fallback: the next requestor is tried when the current one failed
RQfallback(R, p, arg) ==
    IF arg.failure = NoError
    THEN Callback(R, p, complete(arg.success, NoError))
    ELSE IF R.index[p] < Len(TaskIds(p))
         THEN [R EXCEPT !.index[p] = @ + 1,
                        !.st[TaskIds(p)[R.index[p] + 1]] = "pending"]
         ELSE Callback(R, p, complete(NoError, arg.failure))

Signal(R, p, arg) ==
    IF NodeOf(p).kind = "parallel" THEN RQparallel(R, p, arg)
    ELSE IF NodeOf(p).kind = "race" THEN RQrace(R, p, arg)
    ELSE RQfallback(R, p, arg)

\* the requestor rq made by RQ.parallel, RQ.race or RQ.fallback is called:
\* parallel and race have every requestor started, fallback the first one;
\* without requestors parallel and fallback signal success at once
RQstart(R, n) ==
    LET kids == TaskIds(n)
        all == {kids[i] : i \in 1..Len(kids)}
        pend(S, ids) == [S EXCEPT !.st =
                           [x \in DOMAIN S.st |-> IF x \in ids THEN "pending"
                                                  ELSE S.st[x]]]
    IN  CASE NodeOf(n).kind = "parallel" ->
                IF kids = <<>>
                THEN Callback(R, n, complete(NoError, NoError))
                ELSE pend([R EXCEPT !.count[n] = Len(kids)], all)
          [] NodeOf(n).kind = "race" -> pend(R, all)
          [] NodeOf(n).kind = "fallback" ->
                IF kids = <<>>
                THEN Callback(R, n, complete(NoError, NoError))
                ELSE pend([R EXCEPT !.index[n] = 1], {kids[1]})

\* the function n is invoked with (req, res, callback): a leaf middleware
\* runs until it calls back, a composite calls rq(complete, {req, res})
Invoke(R, n) ==
    LET R1 == [R EXCEPT !.started = Append(@, n), !.st[n] = "running"]
    IN  IF NodeOf(n).kind = "leaf" THEN R1 ELSE RQstart(R1, n)

\* the host calls the registered composite for a request
Request ==
    /\ st[fn.id] = "idle"
    /\ Becomes(Invoke(Run, fn.id))
    /\ UNCHANGED fn

\* the engine starts a requestor: the first one of its composite that is
\* waiting to be started
StartRequestor(c) ==
    /\ st[c] = "pending"
    /\ LET sibs == TaskIds(ParentOf(c))
       IN  \A i, j \in 1..Len(sibs) :
              (sibs[j] = c /\ i < j) => st[sibs[i]] # "pending"
    /\ Becomes(Invoke(Run, c))
    /\ UNCHANGED fn

\* a running middleware calls its callback, with or without an error
Finish(c, e) ==
    /\ NodeOf(c).kind = "leaf"
    /\ st[c] = "running"
    /\ Becomes(Callback(Run, c, e))
    /\ UNCHANGED fn

\* a running middleware throws instead of calling its callback: requestor
\* calls fn outside any try block, so the exception leaves it and
\* requestion is not called
Throws(c) ==
    /\ NodeOf(c).kind = "leaf"
    /\ st[c] = "running"
    /\ Becomes([Run EXCEPT !.st[c] = "threw"])
    /\ UNCHANGED fn

\* ------------------------------------------------- Mount-Time Registrar
regvars ==
    <<settings, toCreate, cursor, toRegister, phase, listening, mounts,
      host, stack, loaded>>
vars == <<rqvars, regvars, routevars>>

parentApp == "parent"
AppLayer == <<"app">>

Emit(event, s) ==
    [op |-> "emit", event |-> event, app |-> parentApp, config |-> s,
     fn |-> Undefined]
Use(f, s) ==
    [op |-> "use", event |-> <<"use">>, app |-> parentApp, config |-> s,
     fn |-> f]

\* faulty variant: the two after events are emitted in the other order
RegisterAfterSwapped(e) ==
    << Emit(<<"middleware:before">>, e.spec),
       Emit(<<"middleware:before", e.spec.name>>, e.spec),
       Use(e.fn, e.spec),
       Emit(<<"middleware:after">>, e.spec),
       Emit(<<"middleware:after", e.spec.name>>, e.spec) >>

\* the body of the loop of onmount for one registration entry
Register(e) ==
    << Emit(<<"middleware:before">>, e.spec),
       Emit(<<"middleware:before", e.spec.name>>, e.spec),
       Use(e.fn, e.spec),
       Emit(<<"middleware:after", e.spec.name>>, e.spec),
       Emit(<<"middleware:after">>, e.spec) >>

\* onmount(parent): what the parent observes, entry after entry
RECURSIVE onmount(_)
onmount(entries) ==
    IF entries = <<>> THEN <<>>
    ELSE Register(Head(entries)) \o onmount(Tail(entries))

\* the layers parent.use pushes on the parent's router stack
Layers(entries) == [i \in 1..Len(entries) |-> entries[i].fn.id]

\* faulty variant: the loop starts the resolution of every spec at once
StepFanOut(tc, i) ==
    /\ cursor' = i
    /\ IF i <= Len(tc)
       THEN /\ phase' = "awaiting"
            /\ loaded' = IF i = 1
                          THEN Loaded([k \in 1..Len(tc) |->
                                         resolve(tc[k], tc[k].name, <<>>)])
                          ELSE loaded
            /\ UNCHANGED listening
       ELSE /\ phase' = "returned"
            /\ listening' = TRUE
            /\ UNCHANGED loaded

\* the loop of meddlewareImpl reaches position i of tc: it calls resolve
\* for that spec and awaits it, or, past the end, makes the app, registers
\* onmount for its first mount and returns it
Step(tc, i) ==
    /\ cursor' = i
    /\ IF i <= Len(tc)
       THEN /\ phase' = "awaiting"
            /\ loaded' = loaded \o resolve(tc[i], tc[i].name, <<>>).loaded
            /\ UNCHANGED listening
       ELSE /\ phase' = "returned"
            /\ listening' = TRUE
            /\ UNCHANGED loaded

\* faulty variant: the specs are taken in the order of the settings
meddlewareImplUnsorted ==
    /\ phase = "init"
    /\ toCreate' = SelectSeq(mapValues(settings), LAMBDA v : v.isObject)
    /\ Step(toCreate', 1)
    /\ UNCHANGED <<settings, toRegister, mounts, host, stack, rqvars>>

\* meddlewareImpl(settings, basedir) is called
meddlewareImpl ==
    /\ phase = "init"
    /\ toCreate' = sort(SelectSeq(mapValues(settings), LAMBDA v : v.isObject))
    /\ Step(toCreate', 1)
    /\ UNCHANGED <<settings, toRegister, mounts, host, stack, rqvars>>

\* faulty variant: a spec whose resolution raised is skipped
ResolvedSkipsFailure ==
    /\ phase = "awaiting"
    /\ LET r == resolve(toCreate[cursor], toCreate[cursor].name, <<>>)
       IN  /\ toRegister' =
                 IF r.status = "value" /\ IsTruthy(r.fn)
                 THEN Append(toRegister,
                             [fn |-> r.fn, spec |-> toCreate[cursor]])
                 ELSE toRegister
           /\ Step(toCreate, cursor + 1)
    /\ UNCHANGED <<settings, toCreate, mounts, host, stack, rqvars>>

\* the awaited resolve settles and the loop goes on
Resolved ==
    /\ phase = "awaiting"
    /\ LET r == resolve(toCreate[cursor], toCreate[cursor].name, <<>>)
       IN  IF r.status = "throw"
           THEN /\ phase' = "thrown"
                /\ UNCHANGED <<cursor, toRegister, listening, loaded>>
           ELSE /\ toRegister' =
                      IF IsTruthy(r.fn)
                      THEN Append(toRegister,
                                  [fn |-> r.fn, spec |-> toCreate[cursor]])
                      ELSE toRegister
                /\ Step(toCreate, cursor + 1)
    /\ UNCHANGED <<settings, toCreate, mounts, host, stack, rqvars>>

\* faulty variant: onmount stays registered after a mount
MountEveryTime ==
    /\ phase = "returned"
    /\ mounts < MaxMounts
    /\ mounts' = mounts + 1
    /\ stack' = stack \o Layers(toRegister)
    /\ host' = host \o onmount(toRegister)
    /\ UNCHANGED <<settings, toCreate, cursor, toRegister, phase, loaded,
                   listening, rqvars>>

\* the returned app is mounted on a parent, which notifies it
Mount ==
    /\ phase = "returned"
    /\ mounts < MaxMounts
    /\ mounts' = mounts + 1
    /\ IF listening
       THEN /\ listening' = FALSE
            /\ stack' = stack \o Layers(toRegister)
            /\ host' = host \o onmount(toRegister)
       ELSE /\ stack' = Append(stack, AppLayer)
            /\ UNCHANGED <<listening, host>>
    /\ UNCHANGED <<settings, toCreate, cursor, toRegister, phase, loaded,
                   rqvars>>

\* ------------------------------------------------- route normalization
\* a route value: type is "absent" (undefined), "string", "regexp" or
\* "array"; str holds the characters of a string, elems the elements of an
\* array; "unset" stands for no call of parent.use yet
RouteValue(type, str, elems) == [type |-> type, str |-> str, elems |-> elems]
Str(str) == RouteValue("string", str, <<>>)
NoRoute == RouteValue("absent", <<>>, <<>>)
RegExpRoute == RouteValue("regexp", <<>>, <<>>)
ArrayRoute(elems) == RouteValue("array", <<>>, elems)
Unset == RouteValue("unset", <<>>, <<>>)

\* faulty variant: the route is appended as it is, its leading '/' included
normalizeKeepsSlash(mp, r) ==
    IF r.type \in {"regexp", "array"} THEN r
    ELSE IF r.type = "string"
         THEN Str((IF mp = <<>> \/ mp[Len(mp)] # "/"
                   THEN Append(mp, "/") ELSE mp) \o r.str)
         ELSE Str(mp)

\* normalize(mountpath, route)
normalize(mp, r) ==
    IF r.type \in {"regexp", "array"} THEN r
    ELSE IF r.type = "string"
         THEN Str((IF mp = <<>> \/ mp[Len(mp)] # "/"
                   THEN Append(mp, "/") ELSE mp)
                  \o (IF r.str # <<>> /\ r.str[1] = "/"
                      THEN Tail(r.str) ELSE r.str))
         ELSE Str(mp)

\* the route onmount computes for an entry
EffectiveRoute(mp, r) ==
    IF r.type = "array"
    THEN ArrayRoute([i \in 1..Len(r.elems) |-> normalize(mp, r.elems[i])])
    ELSE normalize(mp, r)

\* onmount reaches parent.use(route, fn) for the entry
UseRoute ==
    /\ effective = Unset
    /\ effective' = EffectiveRoute(mountpath, route)
    /\ UNCHANGED <<mountpath, route, rqvars>>

\* --------------------------------------------------------- the settings
Enabledness == {"absent", "true", "false"}
Priorities == -1..MaxPriority
Strategies == {"parallel", "race", "fallback"}
Keys == <<"a", "b", "c", "d", "e">>

Leaf(enabled, hasPrio, prio, mod) ==
    SpecObject("", enabled, hasPrio, prio, Absent, Absent, Absent, mod)
Composite(strategy, enabled, kids) ==
    SpecObject("", enabled, FALSE, 0,
               IF strategy = "parallel" THEN Mapping(kids) ELSE Absent,
               IF strategy = "race" THEN Mapping(kids) ELSE Absent,
               IF strategy = "fallback" THEN Mapping(kids) ELSE Absent,
               NoModule)

\* the mappings with up to n entries, keyed in order, with values in S
RECURSIVE Mappings(_, _)
Mappings(S, n) ==
    IF n = 0 THEN {<<>>}
    ELSE LET shorter == Mappings(S, n - 1)
         IN  shorter \cup
             {Append(m, Entry(Keys[n], v)) : m \in {x \in shorter : Len(x) = n - 1},
                                            v \in S}

OkModule == Factory("middleware")
TopPriorities == {<<FALSE, 0>>, <<TRUE, -1>>, <<TRUE, 1>>}

TopLeaves ==
    {Leaf(e, p[1], p[2], m) :
        e \in Enabledness, p \in TopPriorities, m \in {OkModule, NoModule}}
    \cup {Leaf("absent", FALSE, 0, m) :
            m \in {ModuleRef("string", FALSE, "plain", "", "middleware"),
                   ModuleRef("object", FALSE, "named", "create", "middleware"),
                   ModuleRef("string", FALSE, "nowhere", "", "middleware"),
                   Factory("undefined")}}

OkKid == Leaf("absent", FALSE, 0, OkModule)
OffKid == Leaf("false", FALSE, 0, OkModule)
BadKid == Leaf("absent", FALSE, 0, NoModule)

KidSets ==
    { <<Entry("a", OkKid)>>,
      <<Entry("a", OkKid), Entry("b", BadKid)>>,
      <<Entry("a", OffKid), Entry("b", OkKid)>>,
      <<Entry("a", BadKid), Entry("b", OkKid)>>,
      <<Entry("a", OkKid),
        Entry("b", Composite("race", "absent", <<Entry("a", BadKid)>>))>>,
      <<Entry("a", Composite("fallback", "absent", <<Entry("a", OkKid)>>))>> }

TopComposites ==
    {Composite(k, "absent", kids) : k \in Strategies, kids \in KidSets}
    \cup {Composite(k, "false", <<Entry("a", OkKid), Entry("b", BadKid)>>) :
            k \in Strategies}

TopSpecs == TopLeaves \cup TopComposites

\* before meddleware is called with some settings
Init ==
    /\ settings \in {Mapping(m) : m \in Mappings(TopSpecs, MaxSettings)}
    /\ toCreate = <<>>
    /\ cursor = 0
    /\ toRegister = <<>>
    /\ phase = "init"
    /\ listening = FALSE
    /\ mounts = 0
    /\ host = <<>>
    /\ stack = <<>>
    /\ loaded = <<>>
    /\ mountpath = <<"/">>
    /\ route = NoRoute
    /\ effective = Unset
    /\ fn = Undefined
    /\ st = <<>>
    /\ count = <<>>
    /\ failure = <<>>
    /\ index = <<>>
    /\ started = <<>>
    /\ completed = <<>>
    /\ nextCalls = <<>>

Next ==
    \/ meddlewareImpl /\ UNCHANGED routevars
    \/ Resolved /\ UNCHANGED routevars
    \/ Mount /\ UNCHANGED routevars

Spec == Init /\ [][Next]_vars

\* specs with any of parallel, race, fallback and module at once; a mapping
\* may be empty, which is truthy all the same
PathKids(key) ==
    {Absent, Mapping(<<>>), Mapping(<<Entry(key, OkKid)>>),
     Mapping(<<Entry(key, BadKid)>>)}
MixedSpecs ==
    {SpecObject("", e, FALSE, 0, par, rac, fal, mod) :
        e \in {"absent"},
        par \in PathKids("a"), rac \in PathKids("b"), fal \in PathKids("c"),
        mod \in {OkModule, NoModule}}

\* before meddleware is called with one entry that has several attributes
ResolveInit ==
    /\ settings \in {Mapping(<<Entry("m", s)>>) : s \in MixedSpecs}
    /\ toCreate = <<>>
    /\ cursor = 0
    /\ toRegister = <<>>
    /\ phase = "init"
    /\ listening = FALSE
    /\ mounts = 0
    /\ host = <<>>
    /\ stack = <<>>
    /\ loaded = <<>>
    /\ mountpath = <<"/">>
    /\ route = NoRoute
    /\ effective = Unset
    /\ fn = Undefined
    /\ st = <<>>
    /\ count = <<>>
    /\ failure = <<>>
    /\ index = <<>>
    /\ started = <<>>
    /\ completed = <<>>
    /\ nextCalls = <<>>

SpecResolve == ResolveInit /\ [][Next]_vars

\* settings of up to MaxEntries leaves, switched on or off, with and
\* without priorities
OrderPriorities == TopPriorities \cup {<<TRUE, 0>>}
OrderSpecs ==
    {Leaf(e, p[1], p[2], OkModule) :
        e \in {"absent", "false"}, p \in OrderPriorities}

OrderInit ==
    /\ settings \in {Mapping(m) : m \in Mappings(OrderSpecs, MaxEntries)}
    /\ toCreate = <<>>
    /\ cursor = 0
    /\ toRegister = <<>>
    /\ phase = "init"
    /\ listening = FALSE
    /\ mounts = 0
    /\ host = <<>>
    /\ stack = <<>>
    /\ loaded = <<>>
    /\ mountpath = <<"/">>
    /\ route = NoRoute
    /\ effective = Unset
    /\ fn = Undefined
    /\ st = <<>>
    /\ count = <<>>
    /\ failure = <<>>
    /\ index = <<>>
    /\ started = <<>>
    /\ completed = <<>>
    /\ nextCalls = <<>>

SpecOrder == OrderInit /\ [][Next]_vars

\* one composite spec whose children mapping holds objects and values that
\* are not objects
ChildrenSpecs ==
    {Composite(k, "absent", m) :
        k \in Strategies, m \in Mappings({OkKid, NonObject}, MaxChildren)}

ChildrenInit ==
    /\ settings \in {Mapping(<<Entry("m", s)>>) : s \in ChildrenSpecs}
    /\ toCreate = <<>>
    /\ cursor = 0
    /\ toRegister = <<>>
    /\ phase = "init"
    /\ listening = FALSE
    /\ mounts = 0
    /\ host = <<>>
    /\ stack = <<>>
    /\ loaded = <<>>
    /\ mountpath = <<"/">>
    /\ route = NoRoute
    /\ effective = Unset
    /\ fn = Undefined
    /\ st = <<>>
    /\ count = <<>>
    /\ failure = <<>>
    /\ index = <<>>
    /\ started = <<>>
    /\ completed = <<>>
    /\ nextCalls = <<>>

SpecChildren == ChildrenInit /\ [][Next]_vars

\* one module spec that names a loadable unit, with a method or without
ModuleConfigs ==
    {ModuleRef("object", FALSE, n, m, r) :
        n \in DOMAIN Units \cup {"nowhere"},
        m \in {"", "create", "missing"},
        r \in {"middleware", "undefined", "throws"}}
    \cup {ModuleRef("string", FALSE, n, "", r) :
            n \in DOMAIN Units \cup {"nowhere"},
            r \in {"middleware", "undefined", "throws"}}

ModuleInit ==
    /\ settings \in {Mapping(<<Entry("m", Leaf("absent", FALSE, 0, c))>>) :
                        c \in ModuleConfigs}
    /\ toCreate = <<>>
    /\ cursor = 0
    /\ toRegister = <<>>
    /\ phase = "init"
    /\ listening = FALSE
    /\ mounts = 0
    /\ host = <<>>
    /\ stack = <<>>
    /\ loaded = <<>>
    /\ mountpath = <<"/">>
    /\ route = NoRoute
    /\ effective = Unset
    /\ fn = Undefined
    /\ st = <<>>
    /\ count = <<>>
    /\ failure = <<>>
    /\ index = <<>>
    /\ started = <<>>
    /\ completed = <<>>
    /\ nextCalls = <<>>

SpecModule == ModuleInit /\ [][Next]_vars

\* ------------------------------------------------------------ a request
FallbackKids ==
    {Leaf("absent", TRUE, p, OkModule) : p \in Priorities}
    \cup {OkKid, OffKid, Leaf("false", TRUE, 0, OkModule)}
\* a child whose factory returns nothing
VoidKid == Leaf("absent", FALSE, 0, Factory("undefined"))
PlainKids == {OkKid, OffKid, VoidKid}
\* composites with a composite among their children
NestedKid(k) ==
    Composite(k, "absent", <<Entry("a", OkKid), Entry("b", OkKid)>>)
NestedRoots ==
    {Composite(k, "absent", <<Entry("a", NestedKid(j)), Entry("b", OkKid)>>) :
        k \in Strategies, j \in Strategies}

RootSpecs ==
    {Composite("fallback", "absent", m) :
        m \in Mappings(FallbackKids, MaxChildren)}
    \cup {Composite(k, "absent", m) :
            k \in {"parallel", "race"}, m \in Mappings(PlainKids, MaxChildren)}
    \cup NestedRoots

\* a request reaches a composite that meddleware resolved from the one entry
\* of its settings and registered on mount
RequestOf(s) ==
    LET named == nameObject(s, "m")
        r == resolve(named, "m", <<>>)
        entry == [fn |-> r.fn, spec |-> named]
    IN  /\ r.status = "value"
        /\ IsTruthy(r.fn)
        /\ settings = Mapping(<<Entry("m", s)>>)
        /\ toCreate = <<named>>
        /\ cursor = 2
        /\ toRegister = <<entry>>
        /\ phase = "returned"
        /\ listening = FALSE
        /\ mounts = 1
        /\ host = onmount(<<entry>>)
        /\ stack = Layers(<<entry>>)
        /\ loaded = r.loaded
        /\ mountpath = <<"/">>
        /\ route = NoRoute
        /\ effective = EffectiveRoute(<<"/">>, NoRoute)
        /\ fn = r.fn
        /\ st = [id \in Ids(r.fn) |-> "idle"]
        /\ count = [id \in Ids(r.fn) |-> 0]
        /\ failure = [id \in Ids(r.fn) |-> NoError]
        /\ index = [id \in Ids(r.fn) |-> 0]
        /\ started = <<>>
        /\ completed = <<>>
        /\ nextCalls = <<>>

RequestInit == \E s \in RootSpecs : RequestOf(s)

RequestNext ==
    \/ Request /\ UNCHANGED <<regvars, routevars>>
    \/ \E c \in DOMAIN st : StartRequestor(c) /\ UNCHANGED <<regvars, routevars>>
    \/ \E c \in DOMAIN st : Finish(c, NoError) /\ UNCHANGED <<regvars, routevars>>
    \/ \E c \in DOMAIN st : Finish(c, Err(c)) /\ UNCHANGED <<regvars, routevars>>

SpecRequest == RequestInit /\ [][RequestNext]_vars

\* the same with progress: a pending requestor is started in the end, and
\* a running middleware calls its callback in the end
SpecRequestFair == SpecRequest /\ WF_vars(RequestNext)

\* a request whose middleware may throw as well
ThrowRoots ==
    {Composite(k, "absent", m) :
        k \in Strategies, m \in Mappings(PlainKids, MaxChildren)}
    \cup {Composite("parallel", "absent",
                    <<Entry("a", NestedKid("fallback")), Entry("b", OkKid)>>)}

ThrowInit == \E s \in ThrowRoots : RequestOf(s)

ThrowNext ==
    \/ Request /\ UNCHANGED <<regvars, routevars>>
    \/ \E c \in DOMAIN st : StartRequestor(c) /\ UNCHANGED <<regvars, routevars>>
    \/ \E c \in DOMAIN st : Finish(c, NoError) /\ UNCHANGED <<regvars, routevars>>
    \/ \E c \in DOMAIN st : Finish(c, Err(c)) /\ UNCHANGED <<regvars, routevars>>
    \/ \E c \in DOMAIN st : Throws(c) /\ UNCHANGED <<regvars, routevars>>

SpecThrow == ThrowInit /\ [][ThrowNext]_vars

\* ------------------------------------------- properties of one request
\* the registered spec has the children mapping k and no other
Declared(k) ==
    \A a \in Strategies : toRegister[1].spec[a].has <=> a = k
Kids == TaskIds(fn.id)
KidSet == {Kids[i] : i \in 1..Len(Kids)}
Invoked(c) == \E i \in 1..Len(started) : started[i] = c
InvokedAt(c) == CHOOSE i \in 1..Len(started) : started[i] = c
Signalled(c) == \E i \in 1..Len(completed) : completed[i].id = c
SignalledAt(c) == CHOOSE i \in 1..Len(completed) : completed[i].id = c
Outcome(c) == completed[SignalledAt(c)].err
Failed(c) == Signalled(c) /\ Outcome(c).isError
Succeeded(c) == Signalled(c) /\ ~Outcome(c).isError
TimesSignalled(c) ==
    Cardinality({i \in 1..Len(completed) : completed[i].id = c})
TimesInvoked(c) ==
    Cardinality({i \in 1..Len(started) : started[i] = c})

\* C1: a parallel composite starts every child, calls next exactly once,
\* when the last child has signalled and not before, with no error when no
\* child erred and otherwise with the error of the child that erred first
\* in completion order.
C1_ParallelWaitsForAll ==
    Declared("parallel") =>
      /\ Len(nextCalls) <= 1
      /\ Len(nextCalls) = 1 <=>
            (Invoked(fn.id) /\ \A c \in KidSet : Signalled(c))
      /\ nextCalls # <<>> =>
            /\ \A c \in KidSet : Invoked(c) /\ TimesSignalled(c) = 1
            /\ (\A c \in KidSet : ~Failed(c)) => nextCalls[1] = NoError
            /\ \A c \in KidSet :
                  (Failed(c) /\ \A d \in KidSet :
                                   Failed(d) => SignalledAt(c) <= SignalledAt(d))
                  => nextCalls[1] = Outcome(c)

\* a parallel composite of three children has called next with the error
\* of the child that erred first although a child that signalled before it
\* succeeded and one after it erred too
C1_Witness ==
    /\ Declared("parallel")
    /\ Len(Kids) = 3
    /\ nextCalls = <<Err(Kids[1])>>
    /\ Succeeded(Kids[3])
    /\ Failed(Kids[2])
    /\ SignalledAt(Kids[3]) < SignalledAt(Kids[1])
    /\ SignalledAt(Kids[1]) < SignalledAt(Kids[2])

\* C2: a race composite starts every child; the first child to signal,
\* with or without an error, decides the single call of next, and later
\* signals neither call next again nor change the outcome.
C2_RaceFirstDecides ==
    Declared("race") =>
      /\ Len(nextCalls) <= 1
      /\ nextCalls # <<>> <=> \E c \in KidSet : Signalled(c)
      /\ \A c \in KidSet :
            (Signalled(c) /\ \A d \in KidSet :
                                Signalled(d) => SignalledAt(c) <= SignalledAt(d))
            => nextCalls = <<Outcome(c)>>
      /\ \A c \in KidSet : TimesSignalled(c) <= 1
      /\ (~ENABLED RequestNext) => \A c \in KidSet : Invoked(c)

\* the first child erred and next got its error; the second child was
\* started and succeeded later
C2_Witness ==
    /\ Declared("race")
    /\ Len(Kids) >= 2
    /\ Failed(Kids[1])
    /\ Succeeded(Kids[2])
    /\ SignalledAt(Kids[1]) < SignalledAt(Kids[2])
    /\ nextCalls = <<Err(Kids[1])>>

\* the spec a task of the registered fallback composite was resolved from,
\* and the position of its entry in the fallback mapping
KidEntries == toRegister[1].spec.fallback.kids
EntryAt(c) == CHOOSE i \in 1..Len(KidEntries) : KidEntries[i].key = c[Len(c)]
KidSpec(c) == KidEntries[EntryAt(c)].value
Numeric(c) == KidSpec(c).priorityIsNumber
Prio(c) == KidSpec(c).priority
Earlier(x, y) == Invoked(x) /\ Invoked(y) /\ InvokedAt(x) < InvokedAt(y)
\* y is tried only after x was
TriedBefore(x, y) == Invoked(y) => Earlier(x, y)

\* C3: a fallback composite runs its children one at a time; child i+1 is
\* started only after child i signalled an error, an erring child that is
\* not the last hands over to the next one, and once a child signals
\* without error next has been called with no error and no later child is
\* invoked.
C3_FallbackSequential ==
    Declared("fallback") =>
      /\ Cardinality({c \in KidSet : st[c] \in {"pending", "running"}}) <= 1
      /\ \A i \in 1..Len(Kids) :
            /\ (i > 1 /\ st[Kids[i]] # "idle") => Failed(Kids[i - 1])
            /\ (i < Len(Kids) /\ Failed(Kids[i])) => st[Kids[i + 1]] # "idle"
            /\ Succeeded(Kids[i]) =>
                  /\ nextCalls = <<NoError>>
                  /\ \A j \in (i + 1)..Len(Kids) :
                        st[Kids[j]] = "idle" /\ ~Invoked(Kids[j])
            /\ TimesInvoked(Kids[i]) <= 1

\* the first child erred, the second succeeded, the third was never invoked
C3_Witness ==
    /\ Declared("fallback")
    /\ Len(Kids) = 3
    /\ Failed(Kids[1])
    /\ Succeeded(Kids[2])
    /\ st[Kids[3]] = "idle"
    /\ nextCalls = <<NoError>>

\* C4: when every child of a fallback composite signals an error, next is
\* called exactly once, with the error of the child tried last.
C4_FallbackLastError ==
    (Declared("fallback") /\ Kids # <<>> /\ \A c \in KidSet : Failed(c)) =>
        nextCalls = <<Err(Kids[Len(Kids)])>>

\* three children failed one after the other
C4_Witness ==
    /\ Declared("fallback")
    /\ Len(Kids) = 3
    /\ \A c \in KidSet : Failed(c)
    /\ Len(nextCalls) = 1
    /\ nextCalls[1] # Err(Kids[1])

\* C5: of two enabled fallback children with numeric priorities, the one
\* with the lower priority is tried first whatever the insertion order, and
\* of two with the same priority the one inserted first; a child is tried
\* only after those that precede it in that order.
C5_FallbackPriorityOrder ==
    Declared("fallback") =>
      \A x, y \in KidSet :
         (Numeric(x) /\ Numeric(y) /\
            (Prio(x) < Prio(y) \/ (Prio(x) = Prio(y) /\ EntryAt(x) < EntryAt(y))))
         => TriedBefore(x, y)

\* priorities 2, 1, 3 in insertion order: the child of priority 1 was tried
\* first and succeeded, the two others were never invoked
C5_Witness ==
    /\ Declared("fallback")
    /\ Len(KidEntries) = 3
    /\ \A i \in 1..3 : KidEntries[i].value.enabled = "absent"
                       /\ KidEntries[i].value.priorityIsNumber
    /\ KidEntries[1].value.priority = 2
    /\ KidEntries[2].value.priority = 1
    /\ KidEntries[3].value.priority = 3
    /\ Succeeded(fn.id \o <<"b">>)
    /\ ~Invoked(fn.id \o <<"a">>)
    /\ ~Invoked(fn.id \o <<"c">>)
    /\ nextCalls = <<NoError>>

IsPrefix(p, q) == Len(p) <= Len(q) /\ SubSeq(q, 1, Len(p)) = p

\* the children mapping that decides what a spec resolves to
ChosenKids(s) ==
    IF s.parallel.has THEN s.parallel.kids
    ELSE IF s.race.has THEN s.race.kids
    ELSE IF s.fallback.has THEN s.fallback.kids
    ELSE <<>>
IsComposite(s) == s.parallel.has \/ s.race.has \/ s.fallback.has

\* every spec of a tree with its id: [id, spec, live]; live = no spec on
\* the way to it, itself included, is switched off
RECURSIVE SpecTree(_, _, _, _)
SpecTree(s, name, path, live) ==
    LET id == path \o <<IF s.name # "" THEN s.name ELSE name>>
        on == live /\ s.enabled # "false"
        kids == ChosenKids(s)
    IN  {[id |-> id, spec |-> s, live |-> on]}
        \cup UNION {SpecTree(kids[i].value, kids[i].key, id, on) :
                       i \in 1..Len(kids)}

TopTree(t) == SpecTree(t, t.name, <<>>, TRUE)
Processed(i) == i < cursor \/ phase = "returned"
RegisteredIds == UNION {Ids(toRegister[i].fn) : i \in 1..Len(toRegister)}
Uses == {k \in 1..Len(host) : host[k].op = "use"}

\* C7: a spec whose enabled attribute is present and falsy yields no
\* registration entry, no function of a composite and no use() call, and
\* neither its module reference nor those below it are handed to
\* resolveImpl; a spec without the attribute, or with a truthy one, whose
\* factory yields a middleware is registered once the loop has passed it.
C7_DisabledIsPruned ==
    \A i \in 1..Len(toCreate) :
       /\ \A n \in TopTree(toCreate[i]) :
             n.spec.enabled = "false" =>
                /\ \A id \in RegisteredIds : ~IsPrefix(n.id, id)
                /\ \A k \in 1..Len(loaded) : ~IsPrefix(n.id, loaded[k])
                /\ \A k \in Uses : /\ ~IsPrefix(n.id, host[k].fn.id)
                                   /\ host[k].config # n.spec
                /\ \A k \in 1..Len(toRegister) : toRegister[k].spec # n.spec
       /\ (Processed(i) /\ phase # "thrown") =>
             \A n \in TopTree(toCreate[i]) :
                (n.live /\ ~IsComposite(n.spec)
                   /\ resolveImpl(n.spec.module) = "middleware")
                => /\ n.id \in RegisteredIds
                   /\ \E k \in 1..Len(loaded) : loaded[k] = n.id

\* after the mount, of a switched-off composite and a leaf without the
\* enabled attribute only the leaf is registered
C7_Witness ==
    /\ mounts = 1
    /\ Len(toCreate) = 2
    /\ toCreate[1].enabled = "false" /\ toCreate[1].parallel.has
    /\ Len(toCreate[1].parallel.kids) = 2
    /\ toCreate[2].enabled = "absent" /\ ~IsComposite(toCreate[2])
    /\ Len(toRegister) = 1
    /\ Len(host) = 5
    /\ loaded = <<toRegister[1].fn.id>>

\* C8: on mount the parent observes, for each registration entry in turn,
\* middleware:before, middleware:before:<name>, use(fn),
\* middleware:after:<name>, middleware:after, each event with the parent as
\* app and the entry's spec as config, and nothing else.
C8_LifecycleOrder ==
    mounts > 0 =>
      /\ Len(host) = 5 * Len(toRegister)
      /\ \A i \in 1..Len(toRegister) :
            LET b == 5 * (i - 1)
                e == toRegister[i]
                ev(k, name) == /\ host[b + k].op = "emit"
                               /\ host[b + k].event = name
                               /\ host[b + k].app = "parent"
                               /\ host[b + k].config = e.spec
            IN  /\ ev(1, <<"middleware:before">>)
                /\ ev(2, <<"middleware:before", e.spec.name>>)
                /\ host[b + 3].op = "use"
                /\ host[b + 3].fn = e.fn
                /\ host[b + 3].app = "parent"
                /\ ev(4, <<"middleware:after", e.spec.name>>)
                /\ ev(5, <<"middleware:after">>)

\* two entries were registered, the parent saw ten steps
C8_Witness ==
    /\ mounts > 0
    /\ Len(toRegister) = 2
    /\ Len(host) = 10
    /\ host[3].fn.kind = "leaf"
    /\ host[8].fn.kind = "fallback"
    /\ host[7].event = <<"middleware:before", "b">>

\* C9: the parent sees no use() call and no lifecycle event before the app
\* is notified of a mount, and every registration entry is passed to use()
\* exactly once however many mount notifications are delivered.
C9_RegistrationOnMountOnce ==
    /\ mounts = 0 => host = <<>> /\ stack = <<>>
    /\ mounts > 0 =>
          \A i \in 1..Len(toRegister) :
             Cardinality({k \in Uses : host[k].fn = toRegister[i].fn}) = 1

\* the app was notified twice and its two entries were used once each
C9_Witness ==
    /\ mounts = 2
    /\ Len(toRegister) = 2
    /\ Cardinality(Uses) = 2

\* a spec whose resolution raises: it is switched on and its module
\* reference cannot be resolved, or a child of its children mapping raises
RECURSIVE Raises(_)
Raises(s) ==
    /\ s.enabled # "false"
    /\ IF IsComposite(s)
       THEN \E i \in 1..Len(ChosenKids(s)) : Raises(ChosenKids(s)[i].value)
       ELSE resolveImpl(s.module) = "throws"

\* C10: when the resolution of a spec at any depth of the settings raises,
\* the call fails: no app is returned, nothing is registered with use() and
\* no lifecycle event is emitted, the siblings resolved before included;
\* and a registered composite holds a task for every child that is switched
\* on and yields a middleware.
C10_FailFast ==
    /\ (\E i \in 1..Len(toCreate) : Raises(toCreate[i])) =>
          /\ phase # "returned"
          /\ ~listening
          /\ mounts = 0
          /\ host = <<>>
          /\ stack = <<>>
    /\ phase = "thrown" => Raises(toCreate[cursor])
    /\ phase = "awaiting" => \A i \in 1..(cursor - 1) : ~Raises(toCreate[i])
    /\ \A i \in 1..Len(toRegister) :
          \A n \in TopTree(toRegister[i].spec) :
             (n.live /\ (IsComposite(n.spec)
                           \/ resolveImpl(n.spec.module) = "middleware"))
             => n.id \in Ids(toRegister[i].fn)

\* the first spec was resolved and buffered, the second one raised two
\* levels down, and the call failed
C10_Witness ==
    /\ phase = "thrown"
    /\ cursor = 2
    /\ Len(toRegister) = 1
    /\ toCreate[2].parallel.has
    /\ Len(toCreate[2].parallel.kids) = 2
    /\ toCreate[2].parallel.kids[2].value.race.has
    /\ host = <<>>

\* ------------------------------------------------ the route of an entry
Chars == {"/", "a"}
RECURSIVE Strings(_)
Strings(n) ==
    IF n = 0 THEN {<<>>}
    ELSE Strings(n - 1) \cup
         {Append(w, c) : w \in {x \in Strings(n - 1) : Len(x) = n - 1},
                         c \in Chars}

\* mount paths begin with '/'
MountPaths == {w \in Strings(MaxLen) : w # <<>> /\ w[1] = "/"}
Elements ==
    {Str(w) : w \in Strings(2)} \cup {RegExpRoute, ArrayRoute(<<Str(<<"a">>)>>)}
RECURSIVE Arrays(_)
Arrays(n) ==
    IF n = 0 THEN {<<>>}
    ELSE Arrays(n - 1) \cup
         {Append(w, e) : w \in {x \in Arrays(n - 1) : Len(x) = n - 1},
                         e \in Elements}
Routes ==
    {Str(w) : w \in Strings(MaxLen)}
    \cup {NoRoute, RegExpRoute}
    \cup {ArrayRoute(a) : a \in Arrays(MaxArray)}

\* onmount is about to register an entry whose spec has some route, the
\* app being mounted at some path
RouteInit ==
    /\ mountpath \in MountPaths
    /\ route \in Routes
    /\ effective = Unset
    /\ settings = Mapping(<<Entry("m", OkKid)>>)
    /\ toCreate = <<nameObject(OkKid, "m")>>
    /\ cursor = 2
    /\ toRegister = <<[fn |-> resolve(toCreate[1], "m", <<>>).fn,
                       spec |-> toCreate[1]]>>
    /\ phase = "returned"
    /\ listening = FALSE
    /\ mounts = 1
    /\ host = <<Emit(<<"middleware:before">>, toCreate[1]),
                Emit(<<"middleware:before", "m">>, toCreate[1])>>
    /\ stack = <<>>
    /\ loaded = <<<<"m">>>>
    /\ fn = Undefined
    /\ st = <<>>
    /\ count = <<>>
    /\ failure = <<>>
    /\ index = <<>>
    /\ started = <<>>
    /\ completed = <<>>
    /\ nextCalls = <<>>

RouteNext == UseRoute /\ UNCHANGED regvars

SpecRoute == RouteInit /\ [][RouteNext]_vars

\* the characters of w without its leading, or its trailing, '/'
RECURSIVE StripLeading(_)
StripLeading(w) ==
    IF w # <<>> /\ Head(w) = "/" THEN StripLeading(Tail(w)) ELSE w
RECURSIVE StripTrailing(_)
StripTrailing(w) ==
    IF w # <<>> /\ w[Len(w)] = "/"
    THEN StripTrailing(SubSeq(w, 1, Len(w) - 1)) ELSE w
LeadingSlashes(w) == Len(w) - Len(StripLeading(w))
TrailingSlashes(w) == Len(w) - Len(StripTrailing(w))

\* the mount path and the route joined by exactly one '/'
Joined(mp, w) == StripTrailing(mp) \o <<"/">> \o StripLeading(w)

\* what is expected of the effective route e for the route r
JoinedRoute(mp, r, e) ==
    /\ r.type = "string" => e = Str(Joined(mp, r.str))
    /\ r.type = "regexp" => e = r

\* C11 as claimed: every string route, and every string element of an array
\* route, is passed to use() as the mount path followed by the route with
\* exactly one '/' between them; a regular expression is passed unchanged.
C11_ExactlyOneSlash ==
    effective # Unset =>
       /\ JoinedRoute(mountpath, route, effective)
       /\ route.type = "array" =>
             /\ effective.type = "array"
             /\ Len(effective.elems) = Len(route.elems)
             /\ \A i \in 1..Len(route.elems) :
                   JoinedRoute(mountpath, route.elems[i], effective.elems[i])

AtMostOneSlash(mp, r) ==
    r.type = "string" =>
       LeadingSlashes(r.str) <= 1 /\ TrailingSlashes(mp) <= 1

\* C11 as amended: the same, for string routes that begin with at most one
\* '/' under a mount path that ends with at most one '/'; only one '/' is
\* taken off the front of the route, and none is taken off the mount path.
C11_OneSlashStripped ==
    effective # Unset =>
       /\ AtMostOneSlash(mountpath, route)
             => JoinedRoute(mountpath, route, effective)
       /\ route.type = "array" =>
             /\ effective.type = "array"
             /\ Len(effective.elems) = Len(route.elems)
             /\ \A i \in 1..Len(route.elems) :
                   AtMostOneSlash(mountpath, route.elems[i]) =>
                      JoinedRoute(mountpath, route.elems[i],
                                  effective.elems[i])
       /\ (route.type = "string" /\ LeadingSlashes(route.str) > 1)
             => effective = Str((IF mountpath[Len(mountpath)] = "/"
                                 THEN mountpath ELSE Append(mountpath, "/"))
                                \o Tail(route.str))

\* "/a" and "/a" gave "/a/a", and so did "/a/" and "a" as array element
C11_Witness ==
    \/ /\ mountpath = <<"/", "a">>
       /\ route = Str(<<"/", "a">>)
       /\ effective = Str(<<"/", "a", "/", "a">>)
    \/ /\ mountpath = <<"/", "a", "/">>
       /\ route = ArrayRoute(<<Str(<<"a">>), RegExpRoute>>)
       /\ effective = ArrayRoute(<<Str(<<"/", "a", "/", "a">>), RegExpRoute>>)

\* ------------------------------------------- properties of a throwing child
Leaves == {c \in DOMAIN st : NodeOf(c).kind = "leaf"}
\* the child c produced an error: it passed one to its callback or threw one
Produced(c) == Failed(c) \/ st[c] = "threw"

\* C12 as claimed: every error a child of a composite produces at request
\* time is handed to the engine as that child's error, and so reaches the
\* host through next(err) only; none leaves the composite as an exception.
C12_ErrorsOnlyThroughNext ==
    \A c \in Leaves :
       Produced(c) => (Signalled(c) /\ Outcome(c) = Err(c) /\ st[c] # "threw")

\* --------------------------------------------- properties of the path taken
\* the path the claim names for the spec s
Chosen(s) ==
    IF s.parallel.has THEN "parallel"
    ELSE IF s.race.has THEN "race"
    ELSE IF s.fallback.has THEN "fallback"
    ELSE "module"
\* the ids of the children of s under its attribute k
KidIds(s, k) ==
    {<<s.name, s[k].kids[i].key>> : i \in 1..Len(s[k].kids)}
LoadedSet == {loaded[i] : i \in 1..Len(loaded)}

\* C13: for an enabled spec one path is taken, the first present of
\* parallel, race, fallback, and the module otherwise: the children of that
\* attribute are resolved and no child of another one, the spec's own module
\* is located only when none of the three is present, and what is
\* registered is the composite of that strategy.
C13_OnePathByPriority ==
    phase # "init" =>
      LET s == toCreate[1]
          k == Chosen(s)
      IN  /\ k = "module" => LoadedSet = {<<s.name>>}
          /\ k # "module" => LoadedSet = KidIds(s, k)
          /\ \A j \in Strategies \ {k} : LoadedSet \cap KidIds(s, j) = {}
          /\ toRegister # <<>> =>
                toRegister[1].fn.kind = (IF k = "module" THEN "leaf" ELSE k)
          /\ phase # "awaiting" =>
              (phase = "thrown" <=>
                \/ k = "module" /\ s.module = NoModule
                \/ k # "module" /\ \E i \in 1..Len(s[k].kids) :
                                      s[k].kids[i].value = BadKid)

\* a spec with all four attributes was registered as a parallel composite,
\* only the child of parallel having been resolved, although the child of
\* race has no module section
C13_Witness ==
    /\ toRegister # <<>>
    /\ toCreate[1].parallel = Mapping(<<Entry("a", OkKid)>>)
    /\ toCreate[1].race = Mapping(<<Entry("b", BadKid)>>)
    /\ toCreate[1].fallback.has
    /\ toCreate[1].module = OkModule
    /\ toRegister[1].fn.kind = "parallel"
    /\ loaded = <<<<"m", "a">>>>

\* ------------------------------------------ properties of the use() order
\* the position of the settings entry with the key
Pos(key) == CHOOSE i \in 1..Len(settings.kids) : settings.kids[i].key = key
SamePriority(a, b) ==
    \/ a.priorityIsNumber /\ b.priorityIsNumber /\ a.priority = b.priority
    \/ ~a.priorityIsNumber /\ ~b.priorityIsNumber
UsedNames == {host[k].config.name : k \in Uses}

\* C14: use() is called for the top-level entries in ascending order of
\* their numeric priorities; entries of equal priority, and entries that
\* both have none, keep the order of the settings mapping; every entry
\* that is not switched off is used, so pruning changes nothing in the
\* order of the others. The loop awaits one spec after the other, so the
\* order does not depend on when a resolution settles.
C14_RegistrationOrder ==
    mounts > 0 =>
      /\ \A k1, k2 \in Uses :
            k1 < k2 =>
               LET a == host[k1].config
                   b == host[k2].config
               IN  /\ (a.priorityIsNumber /\ b.priorityIsNumber)
                         => a.priority <= b.priority
                   /\ SamePriority(a, b) => Pos(a.name) < Pos(b.name)
      /\ UsedNames =
            {settings.kids[i].key : i \in
                {j \in 1..Len(settings.kids) :
                    settings.kids[j].value.enabled # "false"}}
      /\ Cardinality(Uses) = Cardinality(UsedNames)

\* of three entries the second is switched off; the third, of priority -1,
\* was used before the first, of priority 1
C14_Witness ==
    /\ mounts > 0
    /\ Len(settings.kids) = 3
    /\ settings.kids[2].value.enabled = "false"
    /\ settings.kids[1].value.priorityIsNumber
    /\ settings.kids[1].value.priority = 1
    /\ settings.kids[3].value.priorityIsNumber
    /\ settings.kids[3].value.priority = -1
    /\ Cardinality(Uses) = 2
    /\ host[3].config.name = "c"
    /\ host[8].config.name = "a"

\* ------------------------------------- properties of fan-out and fan-in
\* the resolution of every module spec in the tree of toCreate[i] that is
\* not pruned has been started
StartedAll(i) ==
    \A n \in TopTree(toCreate[i]) :
       (n.live /\ ~IsComposite(n.spec)) => n.id \in LoadedSet
\* no resolution in the tree of toCreate[i] has been started
StartedNone(i) ==
    \A k \in 1..Len(loaded) : ~IsPrefix(<<toCreate[i].name>>, loaded[k])

\* C15 as claimed: at the top level too all siblings are started before
\* one of them is awaited: once meddlewareImpl awaits a resolution, the
\* resolution of every settings entry has been started.
C15_FanOutAtEveryLevel ==
    phase # "init" => \A i \in 1..Len(toCreate) : StartedAll(i)

\* C15 as amended: below the top level all siblings are started before one
\* is awaited, a sibling that raises notwithstanding, and the composite is
\* built only when all have finished; the top-level entries are resolved
\* one after the other: while one is awaited, or after it raised, none of
\* the later ones has been started, and the app is returned only after
\* the last was resolved.
C15_FanOutBelowTopLevel ==
    phase # "init" =>
      /\ \A i \in 1..Len(toCreate) :
            /\ (i <= cursor) => StartedAll(i)
            /\ (i > cursor) => StartedNone(i)
      /\ phase \in {"awaiting", "thrown"} =>
            /\ cursor <= Len(toCreate)
            /\ Len(toRegister) < cursor
      /\ phase = "returned" => cursor = Len(toCreate) + 1

\* the first child of a parallel spec raised, its second child was started
\* all the same, and the entry after the spec was never started
C15_Witness ==
    /\ phase = "thrown"
    /\ cursor = 1
    /\ Len(toCreate) = 2
    /\ toCreate[1].parallel.has
    /\ toCreate[1].parallel.kids = <<Entry("a", BadKid), Entry("b", OkKid)>>
    /\ loaded = <<<<toCreate[1].name, "a">>, <<toCreate[1].name, "b">>>>
    /\ toCreate[2].enabled # "false"
    /\ toCreate[2].module = OkModule
    /\ ~IsComposite(toCreate[2])

\* ------------------------------------ properties of non-object children
\* the ids of the children of the spec s that are objects, in mapping order
ObjectKidIds(s) ==
    LET objects == SelectSeq(ChosenKids(s), LAMBDA e : e.value.isObject)
    IN  [i \in 1..Len(objects) |-> <<s.name, objects[i].key>>]

\* C16 as claimed: under parallel, race and fallback alike a child that is
\* not an object is dropped before resolution: the resolution of the spec
\* does not raise, and the composite registered holds one task for each
\* object child, in order, and none for the others.
C16_NonObjectDiscarded ==
    phase \in {"thrown", "returned"} =>
       /\ phase # "thrown"
       /\ Len(toRegister) = 1
       /\ [i \in 1..Len(toRegister[1].fn.tasks) |-> toRegister[1].fn.tasks[i].id]
             = ObjectKidIds(toCreate[1])

\* --------------------------------------- properties of method selection
\* the four rules of the claim: each says whether it yields a callable for
\* the method name and the loaded unit
Rule1(method, unit) == method # "" /\ method \in unit.members
Rule2(method, unit) ==
    method # "" /\ unit.default = "object" /\ method \in unit.defaultMembers
Rule3(method, unit) == unit.callable
Rule4(method, unit) == unit.default = "function"
SomeRule(method, unit) ==
    Rule1(method, unit) \/ Rule2(method, unit) \/ Rule3(method, unit)
      \/ Rule4(method, unit)

\* C17 as claimed: the four rules are tried in order and the first that
\* yields a callable is taken, so that a unit that can be located fails to
\* resolve only when no rule yields a callable (or its factory raises); in
\* particular a callable unit is used when a method is given that neither
\* the unit nor its default has.
C17_FirstCallableOfFourRules ==
    phase \in {"thrown", "returned"} =>
       LET c == toCreate[1].module
       IN  c.name \in DOMAIN Units =>
              (phase = "thrown" <=>
                 (~SomeRule(c.method, Units[c.name]) \/ c.returns = "throws"))

\* ------------------------------------ properties of children without fn
\* the children of the registered spec that resolve to a middleware
YieldsTask(e) ==
    /\ e.value.enabled # "false"
    /\ resolveImpl(e.value.module) = "middleware" \/ IsComposite(e.value)
TaskKeys == {Kids[i][Len(Kids[i])] : i \in 1..Len(Kids)}
RootKids == ChosenKids(toRegister[1].spec)

\* C18: a child that is switched off, or whose factory returns nothing,
\* leaves no task in the composite: its tasks are the other children and
\* no task is undefined; a fallback composite left without tasks is still
\* registered with use(), and a request to it calls next once, with no
\* error.
C18_EmptyCompositeCallsNext ==
    /\ \A n \in Nodes(fn) : IsTruthy(n)
    /\ TaskKeys = {RootKids[i].key : i \in
                      {j \in 1..Len(RootKids) : YieldsTask(RootKids[j])}}
    /\ Len(Kids) = Cardinality(TaskKeys)
    /\ (Declared("fallback") /\ Kids = <<>>) =>
          /\ fn.kind = "fallback"
          /\ \E k \in Uses : host[k].fn = fn
          /\ Len(nextCalls) <= 1
          /\ Invoked(fn.id) => nextCalls = <<NoError>>
          /\ ~Invoked(fn.id) => ENABLED RequestNext

\* both children of a fallback spec are switched off; the composite was
\* registered and a request to it has called next with no error
C18_Witness ==
    /\ Declared("fallback")
    /\ Len(RootKids) = 2
    /\ \A i \in 1..2 : RootKids[i].value.enabled = "false"
    /\ Kids = <<>>
    /\ Invoked(fn.id)
    /\ nextCalls = <<NoError>>

\* -------------------------------------- properties of a missing priority
\* C19 as claimed: compare puts a spec without a numeric priority below
\* every spec with one, be it positive, zero or negative, so that it comes
\* first in the sorted settings; two specs without priority compare equal.
C19_MissingPriorityIsMinimum ==
    \A i, j \in 1..Len(toCreate) :
       LET a == toCreate[i]
           b == toCreate[j]
       IN  /\ (~a.priorityIsNumber /\ b.priorityIsNumber) =>
                 /\ compare(a, b) < 0
                 /\ i < j
           /\ (~a.priorityIsNumber /\ ~b.priorityIsNumber) =>
                 compare(a, b) = 0

\* ------------------------------------------- properties of termination
Composites == {n.id : n \in {x \in Nodes(fn) : x.kind # "leaf"}}
\* nothing is left to happen for the request
Quiescent == ~ENABLED RequestNext

\* C20 as claimed: with every started child calling back once, a composite
\* that was invoked, nested or not, has called its callback exactly once
\* when nothing is left to happen (the registered one has called next), no
\* function is invoked or calls back more than once, and a fallback over N
\* tasks has run at most N of them.
C20_EveryCompositeCallsNext ==
    /\ Len(nextCalls) <= 1
    /\ \A c \in DOMAIN st : TimesInvoked(c) <= 1 /\ TimesSignalled(c) <= 1
    /\ \A p \in Composites :
          NodeOf(p).kind = "fallback" =>
             Cardinality({i \in 1..Len(started) : ParentOf(started[i]) = p})
                <= Len(TaskIds(p))
    /\ Quiescent =>
          \A p \in Composites :
             Invoked(p) => /\ TimesSignalled(p) = 1
                           /\ p = fn.id => Len(nextCalls) = 1

\* apart from a race without tasks every invoked composite terminates:
\* under SpecRequestFair the registered one calls next in the end
NoEmptyRace ==
    \A p \in Composites : NodeOf(p).kind = "race" => TaskIds(p) # <<>>
TerminatesUnlessRaceIsEmpty ==
    (NoEmptyRace /\ Invoked(fn.id)) ~> (Len(nextCalls) = 1)

=============================================================================
